---- MODULE Spec2Model ----
(***************************************************************************)
(* A model of the Reddit recruitment-problem analyzer:                     *)
(*   reddit_fetcher.py   RedditFetcher (fetch_posts, fetch_comments,       *)
(*                       fetch_all_content)                                *)
(*   openai_analyzer.py  OpenAIAnalyzer (analyze_recruitment_problems,     *)
(*                       _analyze_batch, _summarize_problems,              *)
(*                       generate_report)                                  *)
(*   main.py             validate_environment and main                     *)
(*                                                                         *)
(* The forum and the completion service are external: what they answer is  *)
(* drawn nondeterministically.  Time is counted in days.                   *)
(***************************************************************************)
EXTENDS Integers, Sequences, FiniteSets, TLC

VARIABLES
    pc,                 \* position of the running call
    env,                \* the process environment: credential -> value
    lookback,           \* --lookback / lookback_days
    post_limit,         \* --post-limit / limit: {} is None, {n} is n
    comments_per_post,  \* --comments-per-post / max_comments_per_post
    save_raw,           \* --save-raw
    load_from_file,     \* --load-from-file: {} is None, {""} the empty string, {"path"} a path
    output,             \* --output: the prefix of the report's file name
    listing,            \* what subreddit.new() offered to fetch_posts
    threads,            \* what the forum offered per post to fetch_comments
    posts,              \* the post list of the running call / of main
    batch_size,         \* analyze_recruitment_problems' batch_size
    i,                  \* loop index of the batch loop
    all_problems,       \* analyze_recruitment_problems' accumulator
    calls,              \* the batches handed to the batch completion call
    responses,          \* what the completion service answered per batch
    summary_responses,  \* what the completion service answered to the summary call
    analysis,           \* the report returned by _summarize_problems
    file_kind,          \* what the load path held
    raw_file,           \* raw-data files on disk (sequence of content and completeness)
    report_file,        \* report files on disk (sequence of path, content, completeness)
    write_failure,      \* which write raised and where ("raw_open", "raw_dump",
                        \* "report_open", "report_dump"), or "none"
    listed,             \* the credential names printed as missing
    message,            \* the last message printed on the way out
    fetch_invoked,      \* the forum client was asked for content
    forum_failure,      \* where a forum request of this run raised, or "none"
    analyzer_invoked,   \* analyze_recruitment_problems was entered
    exit_code           \* {} while running, {code} after the process ended

vars == <<pc, env, lookback, post_limit, comments_per_post, save_raw,
          load_from_file, listing, threads, posts, batch_size, i,
          all_problems, calls, responses, summary_responses, analysis,
          file_kind, raw_file, report_file, listed, message, fetch_invoked,
          forum_failure, analyzer_invoked, exit_code, output, write_failure>>

options == <<env, lookback, post_limit, comments_per_post, save_raw, load_from_file,
             output>>
forum_vars == <<listing, threads, fetch_invoked, forum_failure>>
analyzer_vars == <<batch_size, i, all_problems, calls, responses,
                   summary_responses, analysis, analyzer_invoked>>
output_vars == <<file_kind, raw_file, report_file, listed, message, exit_code,
                 write_failure>>

----------------------------------------------------------------------------
(* Bounds of the model.                                                    *)

MaxTime == 2          \* creation days range over 0..MaxTime; today is MaxTime
MaxSubmissions == 3   \* submissions the forum listing offers
MaxThreads == 2       \* posts handed to a direct fetch_comments call
MaxComments == 2      \* comments the forum offers for one post
MaxLimit == 2         \* largest --post-limit tried
MaxCap == 2           \* largest per-post comment cap tried
MaxPosts == 3         \* posts handed to a direct analyzer call
MaxBatch == 2         \* largest batch size of a direct analyzer call
MaxProblems == 2      \* problems one batch response carries
MaxFileRecords == 1   \* records in a loaded file

(* Program constants.                                                      *)

DefaultBatchSize == 10

Now == MaxTime
Times == 0..MaxTime
Lookbacks == 0..MaxTime
Limits == {{}} \cup {{n} : n \in 0..MaxLimit}
Caps == 0..MaxCap

Min(a, b) == IF a < b THEN a ELSE b

RECURSIVE SeqsUpTo(_, _)
SeqsUpTo(S, n) ==
    IF n = 0 THEN {<<>>}
    ELSE LET shorter == SeqsUpTo(S, n - 1)
         IN  shorter \cup {Append(s, x) : s \in {t \in shorter : Len(t) = n - 1}, x \in S}

----------------------------------------------------------------------------
(* Python values.                                                          *)

\* Optional[int] and Optional[str] are sets with at most one element.
IsNone(o) == o = {}
Value(o) == CHOOSE x \in o : TRUE

\* Python truth of an Optional[int]: None and 0 are false.
TruthyInt(o) == ~IsNone(o) /\ Value(o) # 0

----------------------------------------------------------------------------
(* The forum, as reddit_fetcher.py sees it.                                *)

DeletedBody == "[deleted]"

\* One element of subreddit.new(): a submission, or the listing raising there.
Submission(t) == [fail |-> FALSE, created_utc |-> t]
ListingFailure == [fail |-> TRUE, created_utc |-> 0]
ListingItems == {Submission(t) : t \in Times} \cup {ListingFailure}
Listings == SeqsUpTo(ListingItems, MaxSubmissions)

\* One element of submission.comments.list(); id is its position in the thread.
CommentKinds == {"nobody", "deleted", "text"}

SourceComment(j, kind) ==
    [id |-> j,
     has_body |-> kind # "nobody",
     body |-> IF kind = "deleted" THEN DeletedBody
              ELSE IF kind = "text" THEN "text" ELSE ""]

Thread(kinds) ==
    [fail |-> FALSE,
     comments |-> [j \in 1..Len(kinds) |-> SourceComment(j, kinds[j])]]

ThreadFailure == [fail |-> TRUE, comments |-> <<>>]
ThreadOutcomes == {Thread(k) : k \in SeqsUpTo(CommentKinds, MaxComments)} \cup {ThreadFailure}

\* _extract_post_data: the pipeline's Post record.  shape says which keys the
\* dict carries; a fetched post carries all of them.
extract_post_data(k, submission) ==
    [id |-> k, created_utc |-> submission.created_utc, comments |-> <<>>,
     shape |-> "post"]

Raised == [raised |-> TRUE, posts |-> <<>>]
\* A raise out of a loop that changed the caller's list ps in place.
RaisedWith(ps) == [raised |-> TRUE, posts |-> ps]
Returned(ps) == [raised |-> FALSE, posts |-> ps]

\* A fetch_posts loop that skips a post older than the cutoff (continue) where
\* the code stops at it (break).
RECURSIVE FetchPostsLoopSkipsOld(_, _, _, _, _)
FetchPostsLoopSkipsOld(source, k, acc, cutoff_timestamp, limit) ==
    IF k > Len(source) THEN Returned(acc)
    ELSE IF source[k].fail THEN Raised
    ELSE IF source[k].created_utc < cutoff_timestamp
         THEN FetchPostsLoopSkipsOld(source, k + 1, acc, cutoff_timestamp, limit)
    ELSE IF TruthyInt(limit) /\ Len(acc) >= Value(limit) THEN Returned(acc)
    ELSE FetchPostsLoopSkipsOld(source, k + 1,
                                Append(acc, extract_post_data(k, source[k])),
                                cutoff_timestamp, limit)

\* The loop of fetch_posts over the submission generator.
RECURSIVE FetchPostsLoop(_, _, _, _, _)
FetchPostsLoop(source, k, acc, cutoff_timestamp, limit) ==
    IF k > Len(source) THEN Returned(acc)
    ELSE IF source[k].fail THEN Raised
    ELSE IF source[k].created_utc < cutoff_timestamp THEN Returned(acc)
    ELSE IF TruthyInt(limit) /\ Len(acc) >= Value(limit) THEN Returned(acc)
    ELSE FetchPostsLoop(source, k + 1,
                        Append(acc, extract_post_data(k, source[k])),
                        cutoff_timestamp, limit)

CutoffTimestamp(lookback_days) == Now - lookback_days

fetch_posts(source, lookback_days, limit) ==
    FetchPostsLoop(source, 1, <<>>, CutoffTimestamp(lookback_days), limit)

\* A comment loop that counts every comment seen toward the cap, skipped ones
\* included.
RECURSIVE AttachLoopCountsSkipped(_, _, _, _)
AttachLoopCountsSkipped(source, j, comments, max_comments_per_post) ==
    IF j > Len(source) THEN comments
    ELSE IF j - 1 >= max_comments_per_post THEN comments
    ELSE IF source[j].has_body /\ source[j].body # DeletedBody
         THEN AttachLoopCountsSkipped(source, j + 1,
                         Append(comments, [id |-> source[j].id, body |-> source[j].body]),
                         max_comments_per_post)
         ELSE AttachLoopCountsSkipped(source, j + 1, comments, max_comments_per_post)

\* The inner loop of fetch_comments over one post's comment list.
RECURSIVE AttachLoop(_, _, _, _)
AttachLoop(source, j, comments, max_comments_per_post) ==
    IF j > Len(source) THEN comments
    ELSE IF Len(comments) >= max_comments_per_post THEN comments
    ELSE IF source[j].has_body /\ source[j].body # DeletedBody
         THEN AttachLoop(source, j + 1,
                         Append(comments, [id |-> source[j].id, body |-> source[j].body]),
                         max_comments_per_post)
         ELSE AttachLoop(source, j + 1, comments, max_comments_per_post)

AttachComments(source, max_comments_per_post) ==
    AttachLoop(source, 1, <<>>, max_comments_per_post)

\* A fetch_comments loop that leaves a post without comments when its thread
\* cannot be read, and goes on.
RECURSIVE FetchCommentsLoopSkipsFailure(_, _, _, _)
FetchCommentsLoopSkipsFailure(ps, forum, k, max_comments_per_post) ==
    IF k > Len(ps) THEN Returned(ps)
    ELSE IF forum[k].fail
         THEN FetchCommentsLoopSkipsFailure(ps, forum, k + 1, max_comments_per_post)
    ELSE FetchCommentsLoopSkipsFailure(
             [ps EXCEPT ![k].comments =
                 AttachComments(forum[k].comments, max_comments_per_post)],
             forum, k + 1, max_comments_per_post)

\* The outer loop of fetch_comments: forum[k] is what the forum answers for
\* the k-th post.  The comments are attached in place (post['comments'] =
\* comments), so a raise leaves the list with the posts before the failing one
\* carrying their comments.
RECURSIVE FetchCommentsLoop(_, _, _, _)
FetchCommentsLoop(ps, forum, k, max_comments_per_post) ==
    IF k > Len(ps) THEN Returned(ps)
    ELSE IF forum[k].fail THEN RaisedWith(ps)
    ELSE FetchCommentsLoop(
             [ps EXCEPT ![k].comments =
                 AttachComments(forum[k].comments, max_comments_per_post)],
             forum, k + 1, max_comments_per_post)

fetch_comments(ps, forum, max_comments_per_post) ==
    FetchCommentsLoop(ps, forum, 1, max_comments_per_post)

fetch_all_content(source, forum, lookback_days, limit, max_comments_per_post) ==
    LET fetched == fetch_posts(source, lookback_days, limit)
    IN  IF fetched.raised THEN Raised
        ELSE IF fetched.posts # <<>>
             THEN fetch_comments(fetched.posts, forum, max_comments_per_post)
             ELSE fetched


\* Where a forum request raises while fetch_all_content reads this forum: the
\* k-th submission is collected when the listing yields it inside the window
\* and under the limit; the listing raises when the item after the collected
\* ones is a failure; a thread raises when it is a collected post's.
Collectable(source, k, cutoff_timestamp, limit) ==
    /\ ~source[k].fail
    /\ source[k].created_utc >= cutoff_timestamp
    /\ (TruthyInt(limit) => k - 1 < Value(limit))

Collected(source, cutoff_timestamp, limit) ==
    CHOOSE n \in 0..Len(source) :
        /\ \A k \in 1..n : Collectable(source, k, cutoff_timestamp, limit)
        /\ n < Len(source) => ~Collectable(source, n + 1, cutoff_timestamp, limit)

ListingRaises(source, lookback_days, limit) ==
    LET n == Collected(source, CutoffTimestamp(lookback_days), limit)
    IN  n < Len(source) /\ source[n + 1].fail

ThreadRaises(n, forum) == \E k \in 1..n : forum[k].fail

ForumFailure(source, forum, lookback_days, limit) ==
    IF ListingRaises(source, lookback_days, limit) THEN "listing"
    ELSE IF ThreadRaises(Collected(source, CutoffTimestamp(lookback_days), limit), forum)
         THEN "comments"
    ELSE "none"

----------------------------------------------------------------------------
(* The completion service, as openai_analyzer.py sees it.                  *)

\* What one batch completion call can do: raise, answer text json.loads
\* rejects, answer JSON that is no object, answer an object without a
\* 'problems' key, answer an object whose 'problems' is a non-zero number, or
\* answer an object whose 'problems' is a list of n problems.
BatchFailureKinds == {"throws", "unparsable"}
BatchResponseKinds ==
    BatchFailureKinds \cup {"not_object", "no_problems_key", "scalar_problems", "problems"}

BatchResponses ==
    {[kind |-> k, n |-> 0] : k \in BatchResponseKinds \ {"problems"}}
        \cup {[kind |-> "problems", n |-> m] : m \in 0..MaxProblems}

\* The j-th problem of the answer to batch b.
Problem(b, j) == [batch |-> b, k |-> j]
ProblemList(b, n) == [j \in 1..n |-> Problem(b, j)]

\* _prepare_content_for_analysis reads post['title'], post['selftext'] and
\* post['comments'] of every post: it raises KeyError on a dict without them.
PrepareRaises(batch) == \E k \in 1..Len(batch) : batch[k].shape = "no_title"

\* An _analyze_batch whose completion call is outside the try: a raising call
\* propagates.
analyze_batch_propagates(batch, b, response) ==
    IF PrepareRaises(batch)
    THEN [raised |-> TRUE, called |-> FALSE, is_list |-> TRUE, items |-> <<>>]
    ELSE IF response.kind = "throws"
    THEN [raised |-> TRUE, called |-> TRUE, is_list |-> TRUE, items |-> <<>>]
    ELSE IF response.kind = "problems"
    THEN [raised |-> FALSE, called |-> TRUE, is_list |-> TRUE,
          items |-> ProblemList(b, response.n)]
    ELSE IF response.kind = "scalar_problems"
    THEN [raised |-> FALSE, called |-> TRUE, is_list |-> FALSE, items |-> <<>>]
    ELSE [raised |-> FALSE, called |-> TRUE, is_list |-> TRUE, items |-> <<>>]

\* _analyze_batch on the b-th batch: raised when the call raises (content
\* preparation is outside its try), called when the completion call was made,
\* and the value returned: a list (items) or, is_list false, a number.
analyze_batch(batch, b, response) ==
    IF PrepareRaises(batch)
    THEN [raised |-> TRUE, called |-> FALSE, is_list |-> TRUE, items |-> <<>>]
    ELSE IF response.kind = "problems"
    THEN [raised |-> FALSE, called |-> TRUE, is_list |-> TRUE,
          items |-> ProblemList(b, response.n)]
    ELSE IF response.kind = "scalar_problems"
    THEN [raised |-> FALSE, called |-> TRUE, is_list |-> FALSE, items |-> <<>>]
    ELSE [raised |-> FALSE, called |-> TRUE, is_list |-> TRUE, items |-> <<>>]

\* Python truth of _analyze_batch's value: a non-empty list, a non-zero number.
TruthyResult(r) == IF r.is_list THEN r.items # <<>> ELSE TRUE

\* posts[i + 1:i + batch_size]: a slice that starts one post late.
SliceStartsLate(ps, from, size) == SubSeq(ps, from + 2, Min(from + size, Len(ps)))

\* posts[i:i + batch_size]
Slice(ps, from, size) == SubSeq(ps, from + 1, Min(from + size, Len(ps)))

PostIds(ps) == [k \in 1..Len(ps) |-> ps[k].id]

\* Reports: what _summarize_problems returns.
\* shape: dict or a JSON number; error: the text under 'error'; top_problems:
\* the key is there; displays: main's display loop runs over it without raising.
Report(shape, error, top_problems, displays) ==
    [shape |-> shape, error |-> error, top_problems |-> top_problems,
     displays |-> displays]
NoReport == Report("none", {}, FALSE, TRUE)
ErrorReport(text) == Report("dict", {text}, FALSE, TRUE)

\* What the summary completion call can do: raise, answer text json.loads
\* rejects, answer a JSON number, or answer an object.  json.loads returns the
\* object as it is, so it may or may not carry the key 'error', and it may
\* have no 'top_problems', a 'top_problems' that is a list of objects with
\* text descriptions, or a 'top_problems' that is anything else (a number, a
\* list of strings, a null description).
SummaryFailureKinds == {"throws", "unparsable"}
SummaryObjectKinds ==
    {"object", "object_top_problems", "object_bad_top_problems",
     "object_error", "object_error_top_problems", "object_error_bad_top_problems"}
SummaryResponseKinds == SummaryFailureKinds \cup SummaryObjectKinds \cup {"scalar"}

\* The report json.loads makes of an answer object.
ParsedObject(kind) ==
    Report("dict",
           IF kind \in {"object_error", "object_error_top_problems",
                        "object_error_bad_top_problems"}
           THEN {"error of the answer"} ELSE {},
           kind \notin {"object", "object_error"},
           kind \notin {"object_bad_top_problems", "object_error_bad_top_problems"})

\* A _summarize_problems that lets a raising completion call propagate.
summarize_problems_propagates(problems, kind) ==
    IF problems = <<>>
    THEN [raised |-> FALSE, called |-> FALSE,
          report |-> ErrorReport("No problems identified")]
    ELSE IF kind = "throws"
    THEN [raised |-> TRUE, called |-> TRUE, report |-> NoReport]
    ELSE IF kind = "unparsable"
    THEN [raised |-> FALSE, called |-> TRUE, report |-> ErrorReport("invalid json")]
    ELSE IF kind \in SummaryObjectKinds
    THEN [raised |-> FALSE, called |-> TRUE, report |-> ParsedObject(kind)]
    ELSE [raised |-> FALSE, called |-> TRUE, report |-> Report("scalar", {}, FALSE, TRUE)]

\* _summarize_problems: called says whether the completion call was made.
summarize_problems(problems, kind) ==
    IF problems = <<>>
    THEN [raised |-> FALSE, called |-> FALSE,
          report |-> ErrorReport("No problems identified")]
    ELSE IF kind = "throws"
    THEN [raised |-> FALSE, called |-> TRUE, report |-> ErrorReport("completion failed")]
    ELSE IF kind = "unparsable"
    THEN [raised |-> FALSE, called |-> TRUE, report |-> ErrorReport("invalid json")]
    ELSE IF kind \in SummaryObjectKinds
    THEN [raised |-> FALSE, called |-> TRUE, report |-> ParsedObject(kind)]
    ELSE [raised |-> FALSE, called |-> TRUE, report |-> Report("scalar", {}, FALSE, TRUE)]

----------------------------------------------------------------------------
(* OpenAIAnalyzer.analyze_recruitment_problems                             *)

\* One iteration of the batch loop: slice, _analyze_batch, extend.
AnalyzeBatch ==
    /\ pc = "batch_loop"
    /\ i < Len(posts)
    /\ \E response \in BatchResponses :
          LET batch == Slice(posts, i, batch_size)
              r == analyze_batch(batch, Len(calls) + 1, response)
          IN  /\ calls' = IF r.called THEN Append(calls, PostIds(batch)) ELSE calls
              /\ responses' = IF r.called THEN Append(responses, response) ELSE responses
              /\ IF r.raised \/ (TruthyResult(r) /\ ~r.is_list)
                 THEN /\ pc' = "analysis_raised"
                      /\ UNCHANGED <<all_problems, i>>
                 ELSE /\ all_problems' = all_problems \o r.items
                      /\ i' = i + batch_size
                      /\ pc' = pc
    /\ UNCHANGED <<options, forum_vars, output_vars, posts, batch_size,
                   summary_responses, analysis, analyzer_invoked>>

\* The loop is over: _summarize_problems, and the return of its result.
Summarize ==
    /\ pc = "batch_loop"
    /\ i >= Len(posts)
    /\ \E kind \in SummaryResponseKinds :
          LET r == summarize_problems(all_problems, kind)
          IN  /\ summary_responses' = IF r.called THEN Append(summary_responses, kind)
                                      ELSE summary_responses
              /\ IF r.raised
                 THEN pc' = "analysis_raised" /\ UNCHANGED analysis
                 ELSE pc' = "analysis_returned" /\ analysis' = r.report
    /\ UNCHANGED <<options, forum_vars, output_vars, posts, batch_size, i,
                   all_problems, calls, responses, analyzer_invoked>>

----------------------------------------------------------------------------
(* main.py                                                                 *)

required_vars == <<"REDDIT_CLIENT_ID", "REDDIT_CLIENT_SECRET", "OPENAI_API_KEY">>
Credentials == {required_vars[k] : k \in 1..Len(required_vars)}

\* os.getenv(var): {} is None (unset), {""} is set to the empty string.
EnvValues == {{}, {""}, {"secret"}}
TruthyStr(o) == ~IsNone(o) /\ Value(o) # ""

\* A validate_environment that tests "is None": an empty value passes.
missing_vars_unset_only(e) == SelectSeq(required_vars, LAMBDA v : IsNone(e[v]))

\* The loop of validate_environment: the required names whose value is false,
\* in the order of required_vars.
missing_vars(e) == SelectSeq(required_vars, LAMBDA v : ~TruthyStr(e[v]))

\* What the load path can hold.  A list holds dicts of these shapes: a full
\* Post record, or a dict lacking the named key ("no_id" lacks only keys the
\* pipeline never reads).
RecordShapes == {"post", "no_comments", "no_created_utc", "no_title", "no_id"}
FileKinds == {"missing", "unparsable", "scalar", "empty_object", "object", "list"}

LoadedRecord(k, shape) ==
    [id |-> k, created_utc |-> Now, comments |-> <<>>, shape |-> shape]

FileLists == SeqsUpTo(RecordShapes, MaxFileRecords)

FileContents ==
    {[kind |-> k, records |-> <<>>] : k \in FileKinds \ {"list"}}
        \cup {[kind |-> "list", records |-> r] : r \in FileLists}

\* json.load's value as main iterates it: a list gives its records, a
\* non-empty object gives its keys (strings), an empty object gives nothing.
LoadedPosts(content) ==
    IF content.kind = "list"
    THEN [k \in 1..Len(content.records) |-> LoadedRecord(k, content.records[k])]
    ELSE IF content.kind = "object" THEN <<LoadedRecord(1, "str")>>
    ELSE <<>>

\* The file holds a sequence of Post records, each with its comments.
WellFormedFile(content) ==
    /\ content.kind = "list"
    /\ \A k \in 1..Len(content.records) : content.records[k] = "post"

FileKindOf(content) ==
    IF content.kind # "list" THEN content.kind
    ELSE IF WellFormedFile(content) THEN "posts" ELSE "malformed_list"

\* The forum main runs against: a listing of fresh posts, posts older than
\* every window and failures, and per post an empty thread, a thread with a
\* deleted and a live comment, or a failure.
StaleTime == 0 - 1
PipelineListings ==
    SeqsUpTo({Submission(Now), Submission(StaleTime), ListingFailure}, MaxSubmissions)
PipelineThreads == {Thread(<<>>), Thread(<<"deleted", "text">>), ThreadFailure}

\* --output: the default prefix, and a prefix inside a directory that does
\* not exist.
DefaultOutput == "recruitment_problems_report"
OutputPrefixes == {DefaultOutput, "no_such_dir/report"}

\* main, line 125: output_json = f"{output}.json"
OutputJson(prefix) == prefix \o ".json"

\* with open(path, 'w', ...) as f: json.dump(value, f, ...).  The open raises
\* when the directory of the path does not exist, and it may raise on any
\* path (a directory that cannot be written to); after the open created the
\* file, json.dump may raise in the middle of the write (a text that cannot
\* be encoded, a failing write) and leaves an incomplete file behind.
WriteOutcomes(path) ==
    IF path = "no_such_dir/report.json" THEN {"open_raises"}
    ELSE {"written", "open_raises", "dump_raises"}

\* main, lines 94-95: the raw-data file's name, with its timestamp.
RawFilename == "reddit_data_<timestamp>.json"

\* The file the raw save leaves on disk: all of the posts, or the beginning
\* of their text when json.dump raised.
RawFile(ps, complete) == [content |-> ps, complete |-> complete]

\* The file generate_report leaves on disk: all of the report, or the
\* beginning of its text when json.dump raised.
ReportFile(path, report, complete) ==
    [path |-> path, content |-> report, complete |-> complete]

\* A raw save that does not look at the posts.
AlwaysSaveRaw(flag, ps) == flag

\* main, line 93: the raw data is saved when asked for and there are posts.
ShouldSaveRaw(flag, ps) == flag /\ ps # <<>>

Exit(code, text) ==
    /\ pc' = "exited"
    /\ exit_code' = {code}
    /\ message' = text

\* main, lines 57-61: the banner and validate_environment.
ValidateEnvironment ==
    /\ pc = "start"
    /\ LET missing == missing_vars(env)
       IN  IF missing # <<>>
           THEN /\ listed' = missing
                /\ Exit(1, "Error: Missing required environment variables:")
           ELSE /\ pc' = "get_data"
                /\ UNCHANGED <<listed, message, exit_code>>
    /\ UNCHANGED <<options, forum_vars, analyzer_vars, posts, file_kind,
                   raw_file, report_file, write_failure>>

\* main, lines 64-75: the load path, taken when load_from_file is true (neither
\* None nor the empty string).  len(posts) raises TypeError, which no except
\* clause names, when the file holds a number, a boolean or null.
LoadFromFile ==
    /\ pc = "get_data"
    /\ TruthyStr(load_from_file)
    /\ \E content \in FileContents :
          /\ file_kind' = FileKindOf(content)
          /\ IF content.kind = "missing"
             THEN Exit(1, "Error: File not found") /\ UNCHANGED posts
             ELSE IF content.kind = "unparsable"
             THEN Exit(1, "Error: Invalid JSON") /\ UNCHANGED posts
             ELSE IF content.kind = "scalar"
             THEN Exit(1, "Traceback") /\ UNCHANGED posts
             ELSE /\ posts' = LoadedPosts(content)
                  /\ pc' = "check_posts"
                  /\ UNCHANGED <<message, exit_code>>
    /\ UNCHANGED <<options, forum_vars, analyzer_vars, raw_file, report_file,
                   write_failure, listed>>

\* main, lines 76-98: the live fetch and the optional raw save, taken when
\* load_from_file is false (None or the empty string).  The raw save is
\* outside any try: when its open or its json.dump raises, the process ends
\* with a traceback, in the second case with an incomplete file on disk.
FetchFromReddit ==
    /\ pc = "get_data"
    /\ ~TruthyStr(load_from_file)
    /\ fetch_invoked' = TRUE
    /\ \E source \in PipelineListings, forum \in [1..MaxSubmissions -> PipelineThreads] :
          LET fetched == fetch_all_content(source, forum, lookback, post_limit,
                                           comments_per_post)
          IN  /\ forum_failure' = ForumFailure(source, forum, lookback, post_limit)
              /\ IF fetched.raised
                 THEN /\ Exit(1, "Error fetching Reddit data")
                      /\ UNCHANGED <<posts, raw_file, write_failure>>
                 ELSE IF ShouldSaveRaw(save_raw, fetched.posts)
                 THEN /\ posts' = fetched.posts
                      /\ \E writing \in WriteOutcomes(RawFilename) :
                            IF writing = "open_raises"
                            THEN /\ write_failure' = "raw_open"
                                 /\ Exit(1, "Traceback")
                                 /\ UNCHANGED raw_file
                            ELSE IF writing = "dump_raises"
                            THEN /\ write_failure' = "raw_dump"
                                 /\ Exit(1, "Traceback")
                                 /\ raw_file' = Append(raw_file,
                                                       RawFile(fetched.posts, FALSE))
                            ELSE /\ raw_file' = Append(raw_file,
                                                       RawFile(fetched.posts, TRUE))
                                 /\ pc' = "check_posts"
                                 /\ UNCHANGED <<message, exit_code, write_failure>>
                 ELSE /\ posts' = fetched.posts
                      /\ pc' = "check_posts"
                      /\ UNCHANGED <<raw_file, message, exit_code, write_failure>>
    /\ UNCHANGED <<options, analyzer_vars, listing, threads, file_kind,
                   report_file, listed>>

\* main, lines 100-122: the empty check, the summary statistics (which read
\* post['comments'] and post['created_utc'] of every post, outside any try)
\* and the entry into the analyzer with its default batch size.
CheckPosts ==
    /\ pc = "check_posts"
    /\ IF posts = <<>>
       THEN /\ Exit(0, "No posts found for the specified period.")
            /\ UNCHANGED <<analyzer_invoked, batch_size>>
       ELSE IF \E k \in 1..Len(posts) :
                  posts[k].shape \in {"str", "no_comments", "no_created_utc"}
       THEN /\ Exit(1, "Traceback")
            /\ UNCHANGED <<analyzer_invoked, batch_size>>
       ELSE /\ analyzer_invoked' = TRUE
            /\ batch_size' = DefaultBatchSize
            /\ pc' = "batch_loop"
            /\ UNCHANGED <<message, exit_code>>
    /\ UNCHANGED <<options, forum_vars, posts, i, all_problems, calls,
                   responses, summary_responses, analysis, file_kind,
                   raw_file, report_file, write_failure, listed>>

\* main, lines 125-126 and 137-140, and generate_report: the report is
\* written to <output>.json; when the open or the json.dump raises, main's
\* except clause prints the error and exits 1, with no file in the first case
\* and an incomplete file at <output>.json in the second.
GenerateReport ==
    /\ pc = "analysis_returned"
    /\ \E writing \in WriteOutcomes(OutputJson(output)) :
          IF writing = "open_raises"
          THEN /\ write_failure' = "report_open"
               /\ Exit(1, "Error during OpenAI analysis")
               /\ UNCHANGED report_file
          ELSE IF writing = "dump_raises"
          THEN /\ write_failure' = "report_dump"
               /\ Exit(1, "Error during OpenAI analysis")
               /\ report_file' = Append(report_file,
                                        ReportFile(OutputJson(output), analysis, FALSE))
          ELSE /\ report_file' = Append(report_file,
                                        ReportFile(OutputJson(output), analysis, TRUE))
               /\ pc' = "display"
               /\ UNCHANGED <<message, exit_code, write_failure>>
    /\ UNCHANGED <<options, forum_vars, analyzer_vars, posts, file_kind,
                   raw_file, listed>>

\* main, lines 128-140: "top_problems" in analysis raises TypeError on a
\* number, and the display loop (analysis["top_problems"][:5], problem.get,
\* description[:150]) raises on top problems that are no list of objects with
\* text descriptions; the except clause turns both into exit(1), after the
\* report was written.  Otherwise main returns.
DisplayFindings ==
    /\ pc = "display"
    /\ IF analysis.shape = "scalar" \/ (analysis.top_problems /\ ~analysis.displays)
       THEN Exit(1, "Error during OpenAI analysis")
       ELSE Exit(0, "Analysis complete!")
    /\ UNCHANGED <<options, forum_vars, analyzer_vars, posts, file_kind,
                   raw_file, report_file, write_failure, listed>>

\* main, lines 137-140: an exception out of analyze_recruitment_problems.
AnalysisFailed ==
    /\ pc = "analysis_raised"
    /\ Exit(1, "Error during OpenAI analysis")
    /\ UNCHANGED <<options, forum_vars, analyzer_vars, posts, file_kind,
                   raw_file, report_file, write_failure, listed>>

----------------------------------------------------------------------------
(* Direct calls of the fetcher's methods.                                  *)

CallFetchPosts ==
    /\ pc = "fetch_posts"
    /\ \E source \in Listings :
          LET fetched == fetch_posts(source, lookback, post_limit)
          IN  /\ listing' = source
              /\ forum_failure' = IF ListingRaises(source, lookback, post_limit)
                                  THEN "listing" ELSE "none"
              /\ posts' = fetched.posts
              /\ pc' = IF fetched.raised THEN "fetch_posts_raised"
                       ELSE "fetch_posts_returned"
    /\ fetch_invoked' = TRUE
    /\ UNCHANGED <<options, analyzer_vars, output_vars, threads>>

CallFetchComments ==
    /\ pc = "fetch_comments"
    /\ \E forum \in [1..Len(posts) -> ThreadOutcomes] :
          LET fetched == fetch_comments(posts, forum, comments_per_post)
          IN  /\ threads' = forum
              /\ forum_failure' = IF ThreadRaises(Len(posts), forum)
                                  THEN "comments" ELSE "none"
              /\ posts' = fetched.posts
              /\ pc' = IF fetched.raised THEN "fetch_comments_raised"
                       ELSE "fetch_comments_returned"
    /\ fetch_invoked' = TRUE
    /\ UNCHANGED <<options, analyzer_vars, output_vars, listing>>

----------------------------------------------------------------------------
(* Specifications.                                                         *)

FetchedPosts(n) == [k \in 1..n |-> extract_post_data(k, Submission(Now))]

\* Nothing has run yet.
Fresh ==
    /\ listing = <<>>
    /\ threads = <<>>
    /\ i = 0
    /\ all_problems = <<>>
    /\ calls = <<>>
    /\ responses = <<>>
    /\ summary_responses = <<>>
    /\ analysis = NoReport
    /\ file_kind = "none"
    /\ raw_file = <<>>
    /\ report_file = <<>>
    /\ write_failure = "none"
    /\ listed = <<>>
    /\ message = ""
    /\ fetch_invoked = FALSE
    /\ forum_failure = "none"
    /\ exit_code = {}

\* The process: main() under every environment and every command line.
Init ==
    /\ Fresh
    /\ pc = "start"
    /\ env \in [Credentials -> EnvValues]
    /\ lookback \in Lookbacks
    /\ post_limit \in Limits
    /\ comments_per_post \in Caps
    /\ save_raw \in BOOLEAN
    /\ load_from_file \in {{}, {""}, {"path"}}
    /\ output \in OutputPrefixes
    /\ posts = <<>>
    /\ batch_size = DefaultBatchSize
    /\ analyzer_invoked = FALSE

Next ==
    \/ ValidateEnvironment
    \/ LoadFromFile
    \/ FetchFromReddit
    \/ CheckPosts
    \/ AnalyzeBatch
    \/ Summarize
    \/ GenerateReport
    \/ DisplayFindings
    \/ AnalysisFailed

Spec == Init /\ [][Next]_vars

AllSet == [c \in Credentials |-> {"secret"}]

\* fetch_posts called with every window and every limit.
InitPosts ==
    /\ Fresh
    /\ pc = "fetch_posts"
    /\ env = AllSet
    /\ lookback \in Lookbacks
    /\ post_limit \in Limits
    /\ comments_per_post = 0
    /\ save_raw = FALSE
    /\ load_from_file = {}
    /\ output = DefaultOutput
    /\ posts = <<>>
    /\ batch_size = DefaultBatchSize
    /\ analyzer_invoked = FALSE

SpecPosts == InitPosts /\ [][CallFetchPosts]_vars

\* fetch_comments called with every number of fetched posts and every cap.
InitComments ==
    /\ Fresh
    /\ pc = "fetch_comments"
    /\ env = AllSet
    /\ lookback = 0
    /\ post_limit = {}
    /\ comments_per_post \in Caps
    /\ save_raw = FALSE
    /\ load_from_file = {}
    /\ output = DefaultOutput
    /\ posts \in {FetchedPosts(n) : n \in 0..MaxThreads}
    /\ batch_size = DefaultBatchSize
    /\ analyzer_invoked = FALSE

SpecComments == InitComments /\ [][CallFetchComments]_vars

\* analyze_recruitment_problems called with every number of posts and every
\* batch size.
InitAnalyze ==
    /\ Fresh
    /\ pc = "batch_loop"
    /\ env = AllSet
    /\ lookback = 0
    /\ post_limit = {}
    /\ comments_per_post = 0
    /\ save_raw = FALSE
    /\ load_from_file = {}
    /\ output = DefaultOutput
    /\ posts \in {FetchedPosts(n) : n \in 0..MaxPosts}
    /\ batch_size \in 1..MaxBatch
    /\ analyzer_invoked = TRUE

NextAnalyze == AnalyzeBatch \/ Summarize

SpecAnalyze == InitAnalyze /\ [][NextAnalyze]_vars

----------------------------------------------------------------------------
(* Properties.                                                             *)

Last(q) == q[Len(q)]

RECURSIVE Flatten(_)
Flatten(qs) ==
    IF qs = <<>> THEN <<>> ELSE Flatten(SubSeq(qs, 1, Len(qs) - 1)) \o Last(qs)

\* ceil(P / B)
NumBatches(P, B) == (P + B - 1) \div B

\* The problems the answers rs carry, in batch order; only an answer that is
\* a problem list carries any.
RECURSIVE ExpectedProblems(_)
ExpectedProblems(rs) ==
    IF rs = <<>> THEN <<>>
    ELSE LET b == Len(rs)
         IN  ExpectedProblems(SubSeq(rs, 1, b - 1))
                 \o (IF rs[b].kind = "problems"
                     THEN [j \in 1..rs[b].n |-> [batch |-> b, k |-> j]]
                     ELSE <<>>)

\* C1: batch failure is isolated.  Every batch is handed to the completion
\* call once and in order; the accumulated problems are the concatenation, in
\* batch order, of the problem lists the answers carry (a raising call and an
\* unparsable answer contribute nothing); a raising call or an unparsable
\* answer never makes the analyzer raise; and when the analyzer returns it has
\* called once per batch and has been through the summarizer.
BatchFailureIsolated ==
    /\ Len(calls) = Len(responses)
    /\ \A b \in 1..Len(calls) : calls[b] # <<>> /\ calls[b][1] = (b - 1) * batch_size + 1
    /\ all_problems = ExpectedProblems(responses)
    /\ pc = "batch_loop" => i = batch_size * Len(calls)
    /\ pc = "analysis_raised" =>
          responses # <<>> /\ Last(responses).kind \notin {"throws", "unparsable"}
    /\ pc = "analysis_returned" =>
          /\ Len(calls) = NumBatches(Len(posts), batch_size)
          /\ analysis # NoReport

\* A run with a failing batch between two batches that returned problems.
BatchFailureIsolatedWitness ==
    /\ pc = "analysis_returned"
    /\ Len(responses) >= 3
    /\ responses[1].kind = "problems" /\ responses[1].n > 0
    /\ responses[2].kind \in {"throws", "unparsable"}
    /\ responses[3].kind = "problems" /\ responses[3].n > 0
    /\ Len(all_problems) = responses[1].n + responses[3].n

\* C2: batching partitions the posts into consecutive chunks.  The batches
\* handed out so far, concatenated, are a prefix of the posts; when the
\* analyzer returns there are ceil(P/B) of them, each but the last of B
\* posts, the last of P mod B posts (B when that is 0), and together they
\* are the posts.
BatchingPartition ==
    LET P == Len(posts)
        B == batch_size
        flat == Flatten(calls)
        ids == PostIds(posts)
    IN  /\ Len(flat) <= P
        /\ \A k \in 1..Len(flat) : flat[k] = ids[k]
        /\ pc = "analysis_returned" =>
              /\ Len(calls) = NumBatches(P, B)
              /\ \A b \in 1..(Len(calls) - 1) : Len(calls[b]) = B
              /\ calls # <<>> => Len(Last(calls)) = (IF P % B = 0 THEN B ELSE P % B)
              /\ flat = ids

\* A returned run of several batches whose last one is short.
BatchingPartitionWitness ==
    /\ pc = "analysis_returned"
    /\ Len(calls) >= 2
    /\ Len(posts) % batch_size # 0
    /\ Len(Last(calls)) < batch_size

\* C3: the time window of fetch_posts.  Every returned post was created at
\* or after the cutoff, the result is a prefix of what the listing offered,
\* and it ends before the first offered post older than the cutoff, whatever
\* the order of the listing.
TimeWindow ==
    pc = "fetch_posts_returned" =>
        LET cutoff == Now - lookback
        IN  /\ \A k \in 1..Len(posts) : posts[k].created_utc >= cutoff
            /\ Len(posts) <= Len(listing)
            /\ \A k \in 1..Len(posts) :
                  /\ ~listing[k].fail
                  /\ posts[k].id = k
                  /\ posts[k].created_utc = listing[k].created_utc
            /\ \A k \in 1..Len(listing) :
                  (~listing[k].fail /\ listing[k].created_utc < cutoff) => Len(posts) < k

\* A listing that is not monotonic: a post inside the window comes after one
\* older than the cutoff, and posts were collected before it.
TimeWindowWitness ==
    /\ pc = "fetch_posts_returned"
    /\ posts # <<>>
    /\ \E j, k \in 1..Len(listing) :
          /\ j < k
          /\ ~listing[j].fail /\ listing[j].created_utc < Now - lookback
          /\ ~listing[k].fail /\ listing[k].created_utc >= Now - lookback

\* C4: the post-count limit.  With limit set to N >= 0, fetch_posts returns
\* at most N posts.
PostLimitRespected ==
    (pc = "fetch_posts_returned" /\ ~IsNone(post_limit)) =>
        Len(posts) <= Value(post_limit)

\* C5: comment attachment.  After fetch_comments every post carries at most
\* cap comments, none with the body "[deleted]", and they are the first cap
\* comments of its thread that have a body other than "[deleted]": a skipped
\* comment does not count toward the cap.
CommentAttachment ==
    pc = "fetch_comments_returned" =>
        \A k \in 1..Len(posts) :
            LET attached == posts[k].comments
                kept == SelectSeq(threads[k].comments,
                                  LAMBDA c : c.has_body /\ c.body # "[deleted]")
            IN  /\ Len(attached) <= comments_per_post
                /\ \A j \in 1..Len(attached) : attached[j].body # "[deleted]"
                /\ Len(attached) = Min(comments_per_post, Len(kept))
                /\ \A j \in 1..Len(attached) :
                      attached[j].id = kept[j].id /\ attached[j].body = kept[j].body

\* A post whose thread starts with a deleted comment, fetched with a cap of
\* one: the live comment after it is attached.
CommentAttachmentWitness ==
    /\ pc = "fetch_comments_returned"
    /\ comments_per_post = 1
    /\ \E k \in 1..Len(posts) :
          /\ Len(threads[k].comments) = 2
          /\ threads[k].comments[1].body = "[deleted]"
          /\ Len(posts[k].comments) = 1
          /\ posts[k].comments[1].id = 2

\* C6: summarization failure is recovered at the report level.  With no
\* problems the summarizer makes no completion call and returns an
\* error-tagged report; when its completion call raises or answers
\* unparsable text it returns an error-tagged report; the summarizer never
\* makes the analyzer raise; and a run in which the summarizer got no
\* problems or its completion call failed ends, when the write of
\* <output>.json did not raise, with exactly that report written whole to
\* <output>.json and with exit code 0; when the open raised, with no report
\* file and exit code 1; and when the write raised after the open, with an
\* incomplete file at <output>.json and exit code 1.
SummarizationRecovered ==
    LET call_failed == /\ summary_responses # <<>>
                       /\ Last(summary_responses) \in SummaryFailureKinds
        summarizer_failed == analysis # NoReport /\ (all_problems = <<>> \/ call_failed)
    IN  /\ (analysis # NoReport /\ all_problems = <<>>) =>
              summary_responses = <<>> /\ analysis.error # {}
        /\ call_failed =>
              /\ pc # "analysis_raised"
              /\ analysis.shape = "dict" /\ analysis.error # {}
        /\ pc = "analysis_raised" => summary_responses = <<>> /\ i < Len(posts)
        /\ (pc = "exited" /\ summarizer_failed) =>
              IF write_failure = "report_open"
              THEN report_file = <<>> /\ exit_code = {1}
              ELSE IF write_failure = "report_dump"
              THEN /\ report_file = <<ReportFile(OutputJson(output), analysis, FALSE)>>
                   /\ exit_code = {1}
              ELSE /\ report_file = <<ReportFile(OutputJson(output), analysis, TRUE)>>
                   /\ exit_code = {0}

\* C6 as stated: summarization failure is recovered at the report level.
\* Whenever the summarizer got no problems or its completion call failed, it
\* returns an error-tagged report instead of raising, and the run ends with
\* that report written to <output>.json and without a fatal error.
SummarizationAlwaysWritten ==
    LET call_failed == /\ summary_responses # <<>>
                       /\ Last(summary_responses) \in SummaryFailureKinds
        summarizer_failed == analysis # NoReport /\ (all_problems = <<>> \/ call_failed)
    IN  /\ summarizer_failed => analysis.error # {}
        /\ call_failed => pc # "analysis_raised"
        /\ (pc = "exited" /\ summarizer_failed) =>
              /\ report_file = <<ReportFile(OutputJson(output), analysis, TRUE)>>
              /\ exit_code = {0}

\* A run whose summary completion call raised and that wrote its report.
SummarizationRecoveredWitness ==
    /\ pc = "exited"
    /\ summary_responses = <<"throws">>
    /\ analysis.error # {}
    /\ report_file = <<ReportFile(OutputJson(output), analysis, TRUE)>>
    /\ exit_code = {0}

\* C7: missing credentials are a pre-flight fatal error.  When a required
\* credential is unset or empty, the process goes nowhere but to exit code 1,
\* lists each missing name once and no other, and has neither asked the
\* forum, nor called the completion service, nor read the load path, nor
\* written a file.
MissingCredentialsFatal ==
    LET absent == {c \in Credentials : env[c] = {} \/ env[c] = {""}}
    IN  absent # {} =>
            /\ pc \in {"start", "exited"}
            /\ pc = "exited" =>
                  /\ exit_code = {1}
                  /\ {listed[k] : k \in 1..Len(listed)} = absent
                  /\ Len(listed) = Cardinality(absent)
            /\ ~fetch_invoked /\ ~analyzer_invoked
            /\ file_kind = "none"
            /\ calls = <<>> /\ summary_responses = <<>>
            /\ raw_file = <<>> /\ report_file = <<>>

\* A start with one credential unset, one empty and one present.
MissingCredentialsFatalWitness ==
    /\ pc = "exited"
    /\ env["REDDIT_CLIENT_ID"] = {"secret"}
    /\ env["REDDIT_CLIENT_SECRET"] = {}
    /\ env["OPENAI_API_KEY"] = {""}
    /\ listed = <<"REDDIT_CLIENT_SECRET", "OPENAI_API_KEY">>

\* C8: a fetch failure is fatal and leaves no partial output.  When a forum
\* request raises, in the listing or in a collected post's thread, the
\* process ends with exit code 1, no raw-data file and no report file are
\* written, and the analyzer is never entered.
FetchFailureFatal ==
    forum_failure # "none" =>
        /\ pc = "exited"
        /\ exit_code = {1}
        /\ raw_file = <<>> /\ report_file = <<>>
        /\ ~analyzer_invoked
        /\ calls = <<>> /\ summary_responses = <<>>

\* A thread of a collected post fails, with the raw-save flag set.
FetchFailureFatalWitness ==
    /\ forum_failure = "comments"
    /\ save_raw
    /\ pc = "exited"
    /\ exit_code = {1}

\* C9: load-path errors are fatal.  With a non-empty load path the forum is
\* never asked and no raw-data file is written, and when the file is missing
\* or does not hold a sequence of Post records with their comments, the
\* process ends with exit code 1 without entering the analyzer or writing a
\* report.
LoadErrorsFatal ==
    /\ TruthyStr(load_from_file) => (~fetch_invoked /\ raw_file = <<>>)
    /\ (pc = "exited" /\ file_kind \notin {"none", "posts"}) =>
          /\ exit_code = {1}
          /\ ~analyzer_invoked
          /\ report_file = <<>>

\* C10: an empty result is a graceful no-op.  When the fetch returned, or the
\* load path gave, no posts, the process goes nowhere but to exit code 0 with
\* the no-posts message; the analyzer is not entered, no completion call is
\* made and neither a report nor a raw-data file is written.
EmptyResultNoOp ==
    LET obtained_empty ==
            /\ posts = <<>>
            /\ \/ fetch_invoked /\ forum_failure = "none"
               \/ file_kind \in {"posts", "empty_object"}
    IN  obtained_empty =>
            /\ pc \in {"check_posts", "exited"}
            /\ pc = "exited" =>
                  /\ exit_code = {0}
                  /\ message = "No posts found for the specified period."
            /\ ~analyzer_invoked
            /\ calls = <<>> /\ summary_responses = <<>>
            /\ raw_file = <<>> /\ report_file = <<>>

\* A live fetch that returned no posts, with the raw-save flag set.
EmptyResultNoOpWitness ==
    /\ pc = "exited"
    /\ fetch_invoked /\ forum_failure = "none"
    /\ save_raw
    /\ posts = <<>>
    /\ exit_code = {0}

====
